---- MODULE Spec2Model ----
(***************************************************************************)
(* FFZBot Cloudflare Worker (src/src/index.ts, utilities).                 *)
(*                                                                         *)
(* One isolate of the worker: the fetch handler, handle(), getLink() with  *)
(* its process-local WAIT_MAP, the edge cache (caches.default) and the     *)
(* analytics sink.  Every request is an async task that is suspended at    *)
(* each await of handle().  A step of the model is one job of the          *)
(* isolate's event loop: a fetch event or the completion of an awaited     *)
(* operation (a task), or the continuation of one caller of a settled      *)
(* promise (a microtask).  A task starts only when no microtask is queued. *)
(*                                                                         *)
(* Spec      the resolve route: GET of the root path with a url.           *)
(* SpecHttp  the same isolate behind the whole router of fetch().          *)
(* SpecUtil  the response utilities applied to bounded arguments.          *)
(* SpecD1    the D1 cache adapter of buildConfig() over a cache_entry      *)
(*           table and a clock.                                            *)
(***************************************************************************)
EXTENDS Integers, FiniteSets, Sequences, TLC

\* Number of requests the isolate receives in one behaviour.
MaxReq == 2

Req == 1..MaxReq

\* No promise / no request.
None == 0

----------------------------------------------------------------------------
(* Inputs of a request.                                                    *)

\* Values of the url parameter.  The first two differ only in surface form.
Targets == {"HTTP://EXAMPLE.COM", "http://example.com/", "http://b.example/",
            "not a url", "http://["}

\* url.origin of the worker URL the request came through.
Origins == {"https://api.ffz.example", "https://alt.ffz.example"}

\* User-Agent header values.
Agents == {"Mozilla/5.0 Firefox", "Googlebot/2.1"}

\* isbot(ua)
isbot(ua) == ua = "Googlebot/2.1"

\* What the Resolver can return: a result that visited 19 URLs, one that
\* visited 20, and one without a urls list.
Results == {"doc", "redirect-loop", "bare"}

NoRequest == [method |-> "", path |-> "", mode |-> "", target |-> "", origin |-> "",
              skip_cache |-> FALSE, ua |-> ""]

\* GET /?url=<target>[&skip_cache=1] through either origin.
Requests == [method : {"GET"}, path : {"/"}, mode : {"cors"}, target : Targets,
             origin : Origins, skip_cache : BOOLEAN, ua : Agents]

\* Any method and path through one origin; target "" is a request without a
\* url parameter (searchParams.get gives null, or the empty string).
HttpRequests == [method : {"GET", "OPTIONS"}, path : {"/", "/ips", "/examples", "/favicon.ico"},
                 mode : {"navigate", "cors"}, target : {"", "http://example.com/", "not a url"},
                 origin : {"https://api.ffz.example"}, skip_cache : BOOLEAN, ua : Agents]

----------------------------------------------------------------------------
(* service.normalizeURL(target): the canonical URL, a BaseError (a         *)
(* validation error with a message) or any other thrown error.             *)
normalizeURL(target) ==
    CASE target \in {"HTTP://EXAMPLE.COM", "http://example.com/"}
            -> [kind |-> "url", href |-> "http://example.com/", hostname |-> "example.com"]
      [] target = "http://b.example/"
            -> [kind |-> "url", href |-> "http://b.example/", hostname |-> "b.example"]
      [] target = "not a url"
            -> [kind |-> "BaseError", href |-> "Invalid URL", hostname |-> ""]
      [] OTHER
            -> [kind |-> "Error", href |-> "TypeError", hostname |-> ""]

\* The normalized URLs, as strings (normalized.toString()).
Links == {normalizeURL(t).href : t \in {u \in Targets : normalizeURL(u).kind = "url"}}

\* The strings that can be keys of a Map or parts of a cache URL.
Strings == Targets \cup Links

\* cache_url of handle(): `${origin}/?url=${encodeURIComponent(normalized_str)}`.
\* The encoding is injective and the origin holds no "/?", so the string is
\* the pair.
cache_url(origin, link) == <<origin, link>>

CacheKeys == {cache_url(o, l) : o \in Origins, l \in Strings}

----------------------------------------------------------------------------
VARIABLES
    ANALYTICS,  \* env.ANALYTICS is bound
    req,        \* req[r]: the inputs of request r
    pc,         \* pc[r]: "new", "match", "json", "link" or "done"
    cached,     \* cached[r]: body of the Response cache.match gave r
    promise,    \* promise[r]: the promise r awaits in handle(), named by the
                \* request whose getLink call created it
    settled,    \* settled[p]: state of the service.resolve call p started
    WAIT_MAP,   \* WAIT_MAP[link]: the promise stored for link, or None
    cache,      \* caches.default: cache[key] is a body or "absent"
    put,        \* put[r]: the cache.put r handed to ctx.waitUntil
    resp,       \* resp[r]: the Response r returned
    event,      \* event[r]: the data point r wrote to the dataset
    writes,     \* writes[r]: how many times r called dataset.writeDataPoint
    rows,       \* the cache_entry table of env.DB: key -> row
    now,        \* Date.now()
    ret         \* what the last call of a utility or of the adapter returned

vars == <<ANALYTICS, req, pc, cached, promise, settled, WAIT_MAP, cache, put, resp, event,
          writes, rows, now, ret>>

\* The state of the isolate.
worker == <<ANALYTICS, req, pc, cached, promise, settled, WAIT_MAP, cache, put, resp, event,
            writes>>

\* The state the adapter and the utilities are applied in.
calls == <<rows, now, ret>>

----------------------------------------------------------------------------
(* Headers.  A header map gives every name a value; "" is a name the map   *)
(* does not hold (undefined) or holds with the empty string: both are      *)
(* falsy in `! opts.headers[key]`.                                         *)
HeaderNames == {"Access-Control-Allow-Origin", "Access-Control-Allow-Methods",
                "Access-Control-Allow-Headers", "Cache-Control", "Content-Type", "Location"}

NoHeaders == [k \in HeaderNames |-> ""]

\* GLOBAL_HEADERS of ./constants: the CORS allow-origin, allow-methods and
\* allow-headers headers.
GLOBAL_HEADERS ==
    [k \in {"Access-Control-Allow-Origin", "Access-Control-Allow-Methods",
            "Access-Control-Allow-Headers"} |->
        CASE k = "Access-Control-Allow-Origin"  -> "*"
          [] k = "Access-Control-Allow-Methods" -> "GET, OPTIONS"
          [] OTHER                              -> "Content-Type"]

\* if ( ! opts.headers ) opts.headers = {...GLOBAL_HEADERS};
\* else for (key, val of GLOBAL_HEADERS) if ( ! opts.headers[key] ) opts.headers[key] = val;
withGlobalHeaders_Skip(headers) ==
    IF headers = NoHeaders
    THEN [k \in HeaderNames |-> IF k \in DOMAIN GLOBAL_HEADERS THEN GLOBAL_HEADERS[k] ELSE ""]
    ELSE headers

withGlobalHeaders(headers) ==
    IF headers = NoHeaders
    THEN [k \in HeaderNames |-> IF k \in DOMAIN GLOBAL_HEADERS THEN GLOBAL_HEADERS[k] ELSE ""]
    ELSE [k \in HeaderNames |-> IF k \in DOMAIN GLOBAL_HEADERS /\ headers[k] = ""
                                THEN GLOBAL_HEADERS[k] ELSE headers[k]]

\* SimpleResponseInit; status 0 is no status.
NoOpts == [status |-> 0, headers |-> NoHeaders]

----------------------------------------------------------------------------
(* Responses.  status and headers are those of the Response; body is the   *)
(* payload of its JSON body (a result, an error message, the name of a     *)
(* static document) and body_status the status member of that JSON object  *)
(* (0: the body has none); from tells which code path built the Response.  *)
NoResponse == [status |-> 0, headers |-> NoHeaders, body_status |-> 0, body |-> "", from |-> ""]

\* The object {status, error: msg} of responseError.
errorBody(status, msg) == [from |-> "error", status |-> status, payload |-> msg]

\* A ResolveResult; its own status member is not looked at anywhere.
resultBody(result) == [from |-> "resolver", status |-> 0, payload |-> result]

\* The objects of /ips and /examples.
staticBody(name) == [from |-> "static", status |-> 0, payload |-> name]

\* responseJSON(obj, opts)
responseJSON(obj, opts) ==
    [status      |-> IF opts.status = 0 THEN 200 ELSE opts.status,
     headers     |-> [withGlobalHeaders(opts.headers)
                          EXCEPT !["Content-Type"] = "application/json;charset=UTF-8"],
     body_status |-> obj.status,
     body        |-> obj.payload,
     from        |-> obj.from]

\* responseRedirect(url, code, opts)
responseRedirect(url, code, opts) ==
    [status      |-> code,
     headers     |-> [withGlobalHeaders(opts.headers) EXCEPT !["Location"] = url],
     body_status |-> 0,
     body        |-> "",
     from        |-> "redirect"]

\* responseError(status, msg)
responseError(status, msg) ==
    responseJSON(errorBody(status, msg), [status |-> status, headers |-> NoHeaders])

\* new Response(null, {status: 204, statusText: 'No Content', headers: GLOBAL_HEADERS})
preflightResponse ==
    [status      |-> 204,
     headers     |-> [k \in HeaderNames |-> IF k \in DOMAIN GLOBAL_HEADERS THEN GLOBAL_HEADERS[k]
                                                                      ELSE ""],
     body_status |-> 0,
     body        |-> "",
     from        |-> "preflight"]

\* responseJSON(result, {headers: {'Cache-Control': 'public, max-age=1800'}}) of handle()
resultResponse(result) ==
    responseJSON(resultBody(result),
                 [status |-> 0,
                  headers |-> [NoHeaders EXCEPT !["Cache-Control"] = "public, max-age=1800"]])

\* The cached Response, returned as it was stored by cache.put(cache_url,
\* response.clone()).
cachedResponse(body) == [resultResponse(body) EXCEPT !.from = "cache"]

InternalError == "An internal server error occurred."
BotsForbidden == "Bots are not allowed to use skip_cache at this time."
NotFound == "Not Found"
NoUrl == "No URL was provided."
RobotDocs == "https://docs.frankerfacez.com/dev/link-preview/robot"

----------------------------------------------------------------------------
(* utilities: writeAnalytics                                               *)

NoEvent == [hostname |-> "", agent |-> "", url |-> "", cached |-> 0,
            visited |-> 0, is_bot |-> 0]

\* No call made yet.
NoCall == [op |-> "none"]

\* The table holds no row.
NoRows == [k \in {} |-> NoCall]

\* The isolate before its first request.
InitWorker ==
    /\ ANALYTICS \in BOOLEAN
    /\ req = [r \in Req |-> NoRequest]
    /\ pc = [r \in Req |-> "new"]
    /\ cached = [r \in Req |-> "undefined"]
    /\ promise = [r \in Req |-> None]
    /\ settled = [r \in Req |-> "none"]
    /\ WAIT_MAP = [l \in Strings |-> None]
    /\ cache = [k \in CacheKeys |-> "absent"]
    /\ put = [r \in Req |-> "none"]
    /\ resp = [r \in Req |-> NoResponse]
    /\ event = [r \in Req |-> NoEvent]
    /\ writes = [r \in Req |-> 0]

Init ==
    /\ InitWorker
    /\ rows = NoRows
    /\ now = 0
    /\ ret = NoCall

\* No urls list (undefined).
NoUrls == -1

\* response?.urls?.length of a result
urlsLength(result) ==
    CASE result = "redirect-loop" -> 20
      [] result = "doc"           -> 19
      [] OTHER                    -> NoUrls

\* visited_urls = response?.urls?.length ?? 1
visited_urls(result) == IF urlsLength(result) = NoUrls THEN 1 ELSE urlsLength(result)

\* save_url = visited_urls >= 20
save_url_Above(visited) == visited > 20

save_url(visited) == visited >= 20

\* is_bot ? agent : null, the second blob
agentBlob_Always(ua) == ua

agentBlob(ua) == IF isbot(ua) THEN ua ELSE "null"

\* The data point writeAnalytics hands to dataset.writeDataPoint.
writeAnalytics(q, isCached, result) ==
    [hostname |-> normalizeURL(q.target).hostname,
     agent    |-> agentBlob(q.ua),
     url      |-> IF save_url(visited_urls(result)) THEN q.target ELSE "null",
     cached   |-> IF isCached THEN 1 ELSE 0,
     visited  |-> visited_urls(result),
     is_bot   |-> IF isbot(q.ua) THEN 1 ELSE 0]

\* if ( env.ANALYTICS ) writeAnalytics(...)
Emit_Twice(r, q, isCached, result) ==
    /\ event' = [event EXCEPT ![r] = IF ANALYTICS THEN writeAnalytics(q, isCached, result)
                                                 ELSE NoEvent]
    /\ writes' = [writes EXCEPT ![r] = IF ANALYTICS /\ isCached THEN @ + 2
                                       ELSE IF ANALYTICS THEN @ + 1 ELSE @]

Emit(r, q, isCached, result) ==
    /\ event' = [event EXCEPT ![r] = IF ANALYTICS THEN writeAnalytics(q, isCached, result)
                                                 ELSE NoEvent]
    /\ writes' = [writes EXCEPT ![r] = IF ANALYTICS THEN @ + 1 ELSE @]

\* Nothing is written to the dataset.
NoEmit == UNCHANGED <<event, writes>>

\* The task of request r returns response.
Return(r, response) ==
    /\ resp' = [resp EXCEPT ![r] = response]
    /\ pc' = [pc EXCEPT ![r] = "done"]

----------------------------------------------------------------------------
(* The event loop.  When the promise of getLink settles, the continuation  *)
(* of every caller awaiting it is queued as a microtask, and the isolate   *)
(* runs the queued microtasks before it starts its next task (a fetch      *)
(* event, or the completion of cache.match, of json() or of a Resolver     *)
(* call).  The edge cache is outside the isolate: a cache.put landing or   *)
(* an entry expiring is not held back.                                     *)
Resumable(r) == pc[r] = "link" /\ settled[promise[r]] # "pending"

MicrotasksQueued == \E r \in Req : Resumable(r)

----------------------------------------------------------------------------
(* getLink(service, link, normalized), called by request r.  Synchronous:  *)
(* the lookup, service.resolve(...).finally(...) and WAIT_MAP.set are one  *)
(* step.                                                                   *)
getLink_NoJoin(r, link) ==
    /\ promise' = [promise EXCEPT ![r] = r]
    /\ settled' = [settled EXCEPT ![r] = "pending"]
    /\ WAIT_MAP' = [WAIT_MAP EXCEPT ![link] = r]

getLink_NoSet(r, link) ==
    IF WAIT_MAP[link] # None
    THEN /\ promise' = [promise EXCEPT ![r] = WAIT_MAP[link]]
         /\ UNCHANGED <<settled, WAIT_MAP>>
    ELSE /\ promise' = [promise EXCEPT ![r] = r]
         /\ settled' = [settled EXCEPT ![r] = "pending"]
         /\ UNCHANGED WAIT_MAP

getLink(r, link) ==
    IF WAIT_MAP[link] # None
    THEN /\ promise' = [promise EXCEPT ![r] = WAIT_MAP[link]]
         /\ UNCHANGED <<settled, WAIT_MAP>>
    ELSE /\ promise' = [promise EXCEPT ![r] = r]
         /\ settled' = [settled EXCEPT ![r] = "pending"]
         /\ WAIT_MAP' = [WAIT_MAP EXCEPT ![link] = r]

\* The finally callback of getLink: WAIT_MAP.delete(link), whatever the outcome.
OnFinally_Never(link, outcome) == WAIT_MAP

OnFinally_ThenOnly(link, outcome) ==
    IF outcome = "rejected" THEN WAIT_MAP ELSE [WAIT_MAP EXCEPT ![link] = None]

OnFinally(link, outcome) == [WAIT_MAP EXCEPT ![link] = None]

----------------------------------------------------------------------------
(* fetch(): the router and the policy gate.                                *)

\* if ( skip_cache ) { if ( isbot(ua) ) return 403 }
PolicyDenied_AnyBot(q) == isbot(q.ua)

PolicyDenied(q) == q.skip_cache /\ isbot(q.ua)

\* The branch of fetch() a request takes: the tests of fetch() in their order.
route_PolicyFirst(q) ==
    CASE q.method = "OPTIONS"    -> "preflight"
      [] q.path = "/ips"         -> "ips"
      [] q.path = "/examples"    -> "examples"
      [] q.path # "/"            -> "notfound"
      [] PolicyDenied(q)         -> "denied"
      [] q.target = ""           -> "nourl"
      [] OTHER                   -> "handle"

route_PathFirst(q) ==
    CASE q.path = "/ips"         -> "ips"
      [] q.path = "/examples"    -> "examples"
      [] q.path # "/"            -> "notfound"
      [] q.method = "OPTIONS"    -> "preflight"
      [] q.target = ""           -> "nourl"
      [] PolicyDenied(q)         -> "denied"
      [] OTHER                   -> "handle"

route(q) ==
    CASE q.method = "OPTIONS"    -> "preflight"
      [] q.path = "/ips"         -> "ips"
      [] q.path = "/examples"    -> "examples"
      [] q.path # "/"            -> "notfound"
      [] q.target = ""           -> "nourl"
      [] PolicyDenied(q)         -> "denied"
      [] OTHER                   -> "handle"

\* if ( ! target ) { mode === 'navigate' ? redirect to the documentation : 400 }
missingTarget(q) ==
    IF q.mode = "navigate" THEN responseRedirect(RobotDocs, 302, NoOpts)
                           ELSE responseError(400, NoUrl)

\* The Response of a branch of fetch() that returns at once.
routeResponse(q) ==
    CASE route(q) = "preflight" -> preflightResponse
      [] route(q) = "ips"       -> responseJSON(staticBody("ips"), NoOpts)
      [] route(q) = "examples"  -> responseJSON(staticBody("examples"), NoOpts)
      [] route(q) = "notfound"  -> responseError(404, NotFound)
      [] route(q) = "nourl"     -> missingTarget(q)
      [] OTHER                  -> responseError(403, BotsForbidden)

----------------------------------------------------------------------------
(* handle(): its conditions and keys.                                      *)

\* if ( ! skip_cache ) cached = await cache.match(cache_url)
ReadsCache_Always(q) == TRUE

ReadsCache(q) == ~q.skip_cache

\* if ( cached )
IsHit_Never(found) == FALSE

IsHit(found) == found # "absent"

\* normalized_str = normalized.toString(): the key handed to getLink and
\* the URL part of cache_url.
normalized_str_Raw(q) == q.target

normalized_str(q) == normalizeURL(q.target).href

\* cache_url of request q
cacheKey_NoOrigin(q) == cache_url("https://api.ffz.example", normalized_str(q))

cacheKey(q) == cache_url(q.origin, normalized_str(q))

\* catch (err) of normalizeURL: a BaseError is answered 400 with its message.
OnBaseError_Resolves(r, q, n) ==
    /\ getLink(r, q.target)
    /\ Return(r, responseError(400, n.href))
    /\ NoEmit

OnBaseError(r, q, n) ==
    /\ Return(r, responseError(400, n.href))
    /\ UNCHANGED <<promise, settled, WAIT_MAP>>
    /\ NoEmit

\* catch (err) of normalizeURL: any other error is answered 500.
OnNormalizeError_Detailed(r, q, n) ==
    /\ Return(r, responseError(500, n.href))
    /\ UNCHANGED <<promise, settled, WAIT_MAP>>
    /\ NoEmit

OnNormalizeError(r, q, n) ==
    /\ Return(r, responseError(500, InternalError))
    /\ UNCHANGED <<promise, settled, WAIT_MAP>>
    /\ NoEmit

\* result = await getLink(...): r is suspended on the promise.
AwaitLink(r, q) ==
    /\ getLink(r, normalized_str(q))
    /\ pc' = [pc EXCEPT ![r] = "link"]
    /\ UNCHANGED resp
    /\ NoEmit

\* catch (err) { return responseError(500, ...) } around await getLink
OnRejected_Cached(r) ==
    /\ Return(r, responseError(500, InternalError))
    /\ put' = [put EXCEPT ![r] = "pending"]
    /\ NoEmit

OnRejected(r) ==
    /\ Return(r, responseError(500, InternalError))
    /\ UNCHANGED put
    /\ NoEmit

\* catch (err) { return responseError(500, ...) } around await cache.match
OnMatchError(r) ==
    /\ Return(r, responseError(500, InternalError))
    /\ UNCHANGED <<cached, promise, settled, WAIT_MAP>>
    /\ NoEmit

\* The synchronous head of handle(), up to its first await.
handle(r, q) ==
    LET n == normalizeURL(q.target) IN
    CASE n.kind = "BaseError" -> OnBaseError(r, q, n)
      [] n.kind = "Error"     -> OnNormalizeError(r, q, n)
      [] OTHER ->
            IF ReadsCache(q)
            THEN /\ pc' = [pc EXCEPT ![r] = "match"]
                 /\ UNCHANGED <<promise, settled, WAIT_MAP, resp>>
                 /\ NoEmit
            ELSE AwaitLink(r, q)

----------------------------------------------------------------------------
(* fetch(request, env, ctx) with a request drawn from inputs, and the      *)
(* synchronous head of handle() when the router reaches it.                *)
Receive(r, inputs) ==
    /\ ~MicrotasksQueued
    /\ pc[r] = "new"
    /\ \A s \in Req : s < r => pc[s] # "new"   \* requests are numbered as they arrive
    /\ \E q \in inputs :
        /\ req' = [req EXCEPT ![r] = q]
        /\ IF route(q) = "handle"
           THEN handle(r, q)
           ELSE /\ Return(r, routeResponse(q))
                /\ UNCHANGED <<promise, settled, WAIT_MAP>>
                /\ NoEmit
    /\ UNCHANGED <<ANALYTICS, cached, cache, put>>
    /\ UNCHANGED calls

\* A GET of the root path with a url.
Fetch(r) == Receive(r, Requests)

\* Any request.
FetchHttp(r) == Receive(r, HttpRequests)

(* cached = await cache.match(cache_url) settles: it throws, or gives the  *)
(* stored Response or undefined; handle() runs on to its next await.       *)
CacheMatch(r) ==
    /\ ~MicrotasksQueued
    /\ pc[r] = "match"
    /\ LET q == req[r]
           found == cache[cacheKey(q)]
       IN  \/ OnMatchError(r)
           \/ /\ IsHit(found)
              /\ cached' = [cached EXCEPT ![r] = found]
              /\ IF ANALYTICS
                 THEN /\ pc' = [pc EXCEPT ![r] = "json"]
                      /\ UNCHANGED resp
                 ELSE Return(r, cachedResponse(found))
              /\ UNCHANGED <<promise, settled, WAIT_MAP>>
              /\ NoEmit
           \/ /\ ~IsHit(found)
              /\ AwaitLink(r, q)
              /\ UNCHANGED cached
    /\ UNCHANGED <<ANALYTICS, req, cache, put>>
    /\ UNCHANGED calls

(* await cached.clone().json() settles: the event is written and the       *)
(* cached Response returned.                                               *)
CacheHit_Rewrites(r) ==
    /\ ~MicrotasksQueued
    /\ pc[r] = "json"
    /\ Emit(r, req[r], TRUE, cached[r])
    /\ Return(r, cachedResponse(cached[r]))
    /\ put' = [put EXCEPT ![r] = "pending"]
    /\ UNCHANGED <<ANALYTICS, req, cached, promise, settled, WAIT_MAP, cache>>
    /\ UNCHANGED calls

CacheHit(r) ==
    /\ ~MicrotasksQueued
    /\ pc[r] = "json"
    /\ Emit(r, req[r], TRUE, cached[r])
    /\ Return(r, cachedResponse(cached[r]))
    /\ UNCHANGED <<ANALYTICS, req, cached, promise, settled, WAIT_MAP, cache, put>>
    /\ UNCHANGED calls

(* The service.resolve call started by p settles and the finally callback  *)
(* of getLink runs; the continuations of its callers are now queued.       *)
Settle(p) ==
    /\ ~MicrotasksQueued
    /\ settled[p] = "pending"
    /\ \E outcome \in Results \cup {"rejected"} :
        /\ settled' = [settled EXCEPT ![p] = outcome]
        /\ WAIT_MAP' = OnFinally(normalized_str(req[p]), outcome)
    /\ UNCHANGED <<ANALYTICS, req, pc, cached, promise, cache, put, resp>>
    /\ NoEmit
    /\ UNCHANGED calls

(* await getLink(...) resumes in r: the catch answers 500; else the event  *)
(* is written, the response built, cache.put handed to ctx.waitUntil and   *)
(* the response returned.                                                  *)
Resume(r) ==
    /\ Resumable(r)
    /\ LET result == settled[promise[r]] IN
        IF result = "rejected"
        THEN OnRejected(r)
        ELSE /\ Emit(r, req[r], FALSE, result)
             /\ Return(r, resultResponse(result))
             /\ put' = [put EXCEPT ![r] = "pending"]
    /\ UNCHANGED <<ANALYTICS, req, cached, promise, settled, WAIT_MAP, cache>>
    /\ UNCHANGED calls

\* The cache.put of r fails: the rejection stays with ctx.waitUntil.
PutFails_Surfaced(r) ==
    /\ put' = [put EXCEPT ![r] = "failed"]
    /\ resp' = [resp EXCEPT ![r] = responseError(500, InternalError)]
    /\ UNCHANGED cache

PutFails(r) ==
    /\ put' = [put EXCEPT ![r] = "failed"]
    /\ UNCHANGED <<cache, resp>>

(* The cache.put(cache_url, response.clone()) of r settles in the          *)
(* background: the entry is stored, or the write fails.                    *)
CachePut(r) ==
    /\ put[r] = "pending"
    /\ \/ /\ cache' = [cache EXCEPT ![cacheKey(req[r])] = resp[r].body]
          /\ put' = [put EXCEPT ![r] = "stored"]
          /\ UNCHANGED resp
       \/ PutFails(r)
    /\ UNCHANGED <<ANALYTICS, req, pc, cached, promise, settled, WAIT_MAP>>
    /\ NoEmit
    /\ UNCHANGED calls

(* An entry of the edge cache outlives its max-age (or is evicted).        *)
Expire(k) ==
    /\ cache[k] # "absent"
    /\ cache' = [cache EXCEPT ![k] = "absent"]
    /\ UNCHANGED <<ANALYTICS, req, pc, cached, promise, settled, WAIT_MAP, put, resp>>
    /\ NoEmit
    /\ UNCHANGED calls

Next ==
    \/ \E r \in Req : Fetch(r)
    \/ \E r \in Req : CacheMatch(r)
    \/ \E r \in Req : CacheHit(r)
    \/ \E p \in Req : Settle(p)
    \/ \E r \in Req : Resume(r)
    \/ \E r \in Req : CachePut(r)
    \/ \E k \in CacheKeys : Expire(k)

Spec == Init /\ [][Next]_vars

NextHttp ==
    \/ \E r \in Req : FetchHttp(r)
    \/ \E r \in Req : CacheMatch(r)
    \/ \E r \in Req : CacheHit(r)
    \/ \E p \in Req : Settle(p)
    \/ \E r \in Req : Resume(r)
    \/ \E r \in Req : CachePut(r)
    \/ \E k \in CacheKeys : Expire(k)

SpecHttp == Init /\ [][NextHttp]_vars

----------------------------------------------------------------------------
(* Notions the properties below share.                                     *)

\* Request r has been received.
Arrived(r) == pc[r] # "new"

\* The in-flight key of request r.
LinkOf(r) == normalizeURL(req[r].target).href

\* Request r called getLink: it started a Resolver call or joined one.
Called(r) == promise[r] # None

\* Request r called service.resolve.
Invoked(r) == settled[r] # "none"

\* The response a caller of a Resolver call with this outcome must get.
OutcomeResponse(outcome) ==
    IF outcome = "rejected" THEN responseError(500, InternalError)
                            ELSE resultResponse(outcome)

----------------------------------------------------------------------------
\* C1: requests for one normalized URL that reach getLink before the
\* Resolver call for it settles share that one call (only the first of them
\* invokes service.resolve), every one of them that has returned got the
\* response of the call's one outcome (the same result, or the same
\* failure), and whenever one of them is about to resume after the
\* settlement WAIT_MAP holds no entry for the URL.
C1_Coalesced ==
    /\ \A r1, r2 \in Req :
          (pc[r1] = "link" /\ pc[r2] = "link" /\ LinkOf(r1) = LinkOf(r2))
              => promise[r1] = promise[r2]
    /\ \A r \in Req : Invoked(r) <=> promise[r] = r
    /\ \A r1, r2 \in Req :
          (Called(r1) /\ promise[r1] = promise[r2] /\ pc[r1] = "done" /\ pc[r2] = "done")
              => /\ resp[r1].status = resp[r2].status
                 /\ resp[r1].body = resp[r2].body
                 /\ resp[r1] = OutcomeResponse(settled[promise[r1]])
    /\ \A r \in Req : Resumable(r) => WAIT_MAP[LinkOf(r)] = None

\* Two callers of one Resolver call, reached through different spellings of
\* the URL, have both been answered with its result.
C1_Witness ==
    \E r1, r2 \in Req :
        /\ r1 # r2 /\ promise[r1] = r1 /\ promise[r2] = r1
        /\ req[r1].target # req[r2].target
        /\ pc[r1] = "done" /\ pc[r2] = "done"
        /\ resp[r1].status = 200 /\ resp[r2] = resp[r1]
        /\ ~Invoked(r2)

\* C2: per normalized URL there is at most one unsettled Resolver call and
\* at most one WAIT_MAP entry, and the entry exists exactly while a call for
\* that key is unsettled (and is the promise of that call).
C2_MutualExclusion ==
    \A l \in Strings :
        LET unsettled == {p \in Req : settled[p] = "pending" /\ LinkOf(p) = l} IN
        /\ Cardinality(unsettled) <= 1
        /\ WAIT_MAP[l] # None <=> unsettled # {}
        /\ WAIT_MAP[l] # None => unsettled = {WAIT_MAP[l]}

\* Two requests from different origins, one of them with skip_cache, wait
\* for the one unsettled call of their URL.
C2_Witness ==
    \E r1, r2 \in Req :
        /\ r1 # r2 /\ pc[r1] = "link" /\ pc[r2] = "link"
        /\ promise[r1] = promise[r2] /\ settled[promise[r1]] = "pending"
        /\ req[r1].skip_cache /\ ~req[r2].skip_cache
        /\ req[r1].origin # req[r2].origin
        /\ WAIT_MAP[LinkOf(r1)] = promise[r1]

\* C3: the entry of a Resolver call is removed exactly once, in the step in
\* which the call settles, on success and on failure alike; the removal
\* takes the entry of the settling call and no other, and an entry only
\* ever appears for a call started in that step: per key the state cycles
\* absent, pending, absent.
C3_CleanupOnce ==
    [][ /\ \A p \in Req :
              (settled[p] = "pending" /\ settled'[p] # "pending")
                  => /\ WAIT_MAP[LinkOf(p)] = p
                     /\ WAIT_MAP'[LinkOf(p)] = None
        /\ \A l \in Strings :
              WAIT_MAP'[l] # WAIT_MAP[l]
                  => \/ /\ WAIT_MAP[l] = None
                        /\ settled[WAIT_MAP'[l]] = "none"
                        /\ settled'[WAIT_MAP'[l]] = "pending"
                     \/ /\ WAIT_MAP'[l] = None
                        /\ settled[WAIT_MAP[l]] = "pending"
                        /\ settled'[WAIT_MAP[l]] # "pending"
      ]_vars

\* A key in its second cycle: a first call for it failed and was cleaned
\* up with a joined caller, and a later call for the same key is pending.
C3_Witness ==
    \E p1, p2 \in Req :
        /\ p1 # p2 /\ LinkOf(p1) = LinkOf(p2)
        /\ settled[p1] = "rejected" /\ settled[p2] = "pending"
        /\ WAIT_MAP[LinkOf(p2)] = p2

\* C4: every caller of a Resolver call that failed is answered with the
\* same 500 response, hands no cache write to ctx.waitUntil and writes no
\* analytics event; the cache never holds anything but resolved results.
C4_FailureNotCached ==
    /\ \A r \in Req :
          (Called(r) /\ settled[promise[r]] = "rejected" /\ pc[r] = "done")
              => /\ resp[r] = responseError(500, InternalError)
                 /\ put[r] = "none"
                 /\ event[r] = NoEvent
    /\ \A k \in CacheKeys : cache[k] \in Results \cup {"absent"}

\* Two callers of one failed call have both been answered.
C4_Witness ==
    \E r1, r2 \in Req :
        /\ r1 # r2 /\ promise[r1] = r1 /\ promise[r2] = r1
        /\ settled[r1] = "rejected"
        /\ pc[r1] = "done" /\ pc[r2] = "done"
        /\ resp[r1].status = 500 /\ resp[r2].status = 500

\* C5: a failure of the cache lookup is not surfaced: a request that reads
\* the cache and has a valid URL is answered 500 only when the Resolver
\* call it started or joined failed.
C5_LookupFailureIsMiss ==
    \A r \in Req :
        (/\ pc[r] = "done"
         /\ ~req[r].skip_cache
         /\ normalizeURL(req[r].target).kind = "url"
         /\ resp[r].status = 500)
            => (Called(r) /\ settled[promise[r]] = "rejected")

\* C6: once the cache write of a request is handed to ctx.waitUntil the
\* request has returned, and its response is the resolved result while the
\* write is pending, after it was stored and after it failed.
C6_WriteBehind ==
    \A r \in Req :
        put[r] # "none"
            => /\ pc[r] = "done"
               /\ Called(r)
               /\ settled[promise[r]] \in Results
               /\ resp[r] = resultResponse(settled[promise[r]])

\* The write of an answered request failed, and a later request for the
\* same cache key resolves again.
C6_Witness ==
    \E r1, r2 \in Req :
        /\ r1 # r2 /\ put[r1] = "failed" /\ resp[r1].status = 200
        /\ ~req[r2].skip_cache
        /\ req[r2].origin = req[r1].origin /\ LinkOf(r2) = LinkOf(r1)
        /\ pc[r2] = "link" /\ promise[r2] = r2

\* C7: a request whose cache lookup finds an entry calls neither getLink nor
\* service.resolve and leaves WAIT_MAP alone (also when the lookup itself
\* throws); the lookup that does not throw gives it that entry, it returns
\* the entry as stored, schedules no write, and the event it writes has
\* cached = 1.
C7_HitSkipsResolver ==
    [][ \A r \in Req :
          /\ (pc[r] = "match" /\ pc'[r] # "match"
                  /\ cache[cache_url(req[r].origin, LinkOf(r))] # "absent")
                => /\ ~Called(r)' /\ ~Invoked(r)'
                   /\ WAIT_MAP' = WAIT_MAP
                   /\ \/ pc'[r] = "done" /\ resp'[r] = responseError(500, InternalError)
                      \/ cached'[r] = cache[cache_url(req[r].origin, LinkOf(r))]
          /\ cached'[r] # "undefined"
                => /\ ~Called(r)' /\ ~Invoked(r)'
                   /\ put'[r] = "none"
                   /\ pc'[r] \in {"json", "done"}
                   /\ pc'[r] = "done"
                        => /\ resp'[r] = cachedResponse(cached'[r])
                           /\ event'[r] = IF ANALYTICS
                                          THEN writeAnalytics(req'[r], TRUE, cached'[r])
                                          ELSE NoEvent
                           /\ ANALYTICS => event'[r].cached = 1
      ]_vars

\* A request was served from the cache and wrote its event.
C7_Witness ==
    \E r \in Req :
        /\ pc[r] = "done" /\ resp[r].from = "cache" /\ resp[r].body \in Results
        /\ event[r].cached = 1 /\ ~Called(r)

\* C8: a skip_cache request of a non-bot never waits for or uses a cache
\* lookup, whatever the cache holds; with a valid URL it goes to getLink,
\* and answered 200 it has handed a write to ctx.waitUntil.  A write that
\* lands stores the response body under cache_url(origin, normalized URL),
\* and that is the key whose entry a lookup gives a request.
C8_SkipStillWrites ==
    [][ \A r \in Req :
          /\ (Arrived(r)' /\ req'[r].skip_cache /\ ~isbot(req'[r].ua))
                => /\ pc'[r] \notin {"match", "json"}
                   /\ cached'[r] = "undefined"
                   /\ resp'[r].from # "cache"
                   /\ normalizeURL(req'[r].target).kind = "url" => Called(r)'
                   /\ resp'[r].status = 200 => put'[r] # "none"
          /\ (put[r] = "pending" /\ put'[r] = "stored")
                => cache'[cache_url(req[r].origin, LinkOf(r))] = resp[r].body
          /\ (pc[r] = "match" /\ cached'[r] # "undefined")
                => cached'[r] = cache[cache_url(req[r].origin, LinkOf(r))]
      ]_vars

\* The write of a skip_cache request landed and a later request without
\* skip_cache, for another spelling of the URL, was served that entry.
C8_Witness ==
    \E r1, r2 \in Req :
        /\ r1 < r2
        /\ req[r1].skip_cache /\ put[r1] = "stored"
        /\ ~req[r2].skip_cache /\ req[r2].target # req[r1].target
        /\ pc[r2] = "done" /\ resp[r2] = cachedResponse(resp[r1].body)

\* C9: a request with skip_cache=1 and a bot user-agent is answered 403 at
\* once, whatever its url: it calls neither getLink nor service.resolve,
\* gets nothing from the cache, schedules no write and writes no event.  A
\* request without skip_cache is never answered 403, bot or not.
C9_BotsCannotSkip ==
    \A r \in Req :
        Arrived(r)
            => /\ (req[r].skip_cache /\ isbot(req[r].ua))
                    => /\ pc[r] = "done"
                       /\ resp[r] = responseError(403, BotsForbidden)
                       /\ ~Called(r) /\ ~Invoked(r)
                       /\ cached[r] = "undefined"
                       /\ put[r] = "none"
                       /\ event[r] = NoEvent
               /\ ~req[r].skip_cache => resp[r].status # 403

\* A bot asking for skip_cache with an invalid url got 403, and a bot that
\* did not ask for it got a resolved result.
C9_Witness ==
    \E r1, r2 \in Req :
        /\ req[r1].skip_cache /\ isbot(req[r1].ua)
        /\ normalizeURL(req[r1].target).kind = "BaseError"
        /\ resp[r1].status = 403
        /\ ~req[r2].skip_cache /\ isbot(req[r2].ua)
        /\ resp[r2].status = 200 /\ event[r2].is_bot = 1

\* C10: keys come from the normalized URL only.  No WAIT_MAP entry and no
\* cache entry ever sits under a string that is not a normalized URL; the
\* entry of a call sits under the normalized URL of the request that
\* started it; requests waiting for the same normalized URL wait for one
\* call, however their url parameters are spelled.
C10_KeysFromNormalized ==
    /\ \A s \in Strings \ Links :
          /\ WAIT_MAP[s] = None
          /\ \A o \in Origins : cache[cache_url(o, s)] = "absent"
    /\ \A l \in Links : WAIT_MAP[l] # None => LinkOf(WAIT_MAP[l]) = l
    /\ \A r1, r2 \in Req :
          (/\ pc[r1] = "link" /\ pc[r2] = "link"
           /\ normalizeURL(req[r1].target).href = normalizeURL(req[r2].target).href)
              => promise[r1] = promise[r2]

\* The result resolved for one spelling of a URL was stored and then served
\* from the cache to a request for another spelling through the same origin.
C10_Witness ==
    \E r1, r2 \in Req :
        /\ req[r1].target = "HTTP://EXAMPLE.COM" /\ req[r2].target = "http://example.com/"
        /\ req[r1].origin = req[r2].origin
        /\ put[r1] = "stored"
        /\ resp[r2].from = "cache" /\ resp[r2].body = resp[r1].body

----------------------------------------------------------------------------
\* C11: a request that reaches handle() and whose url is rejected by
\* normalizeURL with a validation error (BaseError) is answered at once with
\* status 400 and the body {status: 400, error: <the error's message>}; it
\* read nothing from the cache and scheduled no write, called neither
\* getLink nor the Resolver, left no WAIT_MAP entry and wrote no event.
C11_InvalidUrlIs400 ==
    \A r \in Req :
        (/\ Arrived(r)
         /\ ~(req[r].skip_cache /\ isbot(req[r].ua))
         /\ normalizeURL(req[r].target).kind = "BaseError")
            => /\ pc[r] = "done"
               /\ resp[r].status = 400
               /\ resp[r].body_status = 400
               /\ resp[r].body = normalizeURL(req[r].target).href
               /\ resp[r].from = "error"
               /\ cached[r] = "undefined" /\ put[r] = "none"
               /\ ~Called(r) /\ ~Invoked(r)
               /\ \A l \in Strings : WAIT_MAP[l] # r
               /\ event[r] = NoEvent /\ writes[r] = 0

\* A request with skip_cache and an invalid url was answered 400 with the
\* normalizer's message while another request
\* was waiting for the Resolver.
C11_Witness ==
    \E r1, r2 \in Req :
        /\ req[r1].target = "not a url" /\ req[r1].skip_cache
        /\ resp[r1].status = 400 /\ resp[r1].body = "Invalid URL"
        /\ pc[r2] = "link"
        /\ ANALYTICS

\* C12: every analytics event carries the hostname of the normalized target,
\* and its URL field is the full target exactly when the served result has
\* a urls list of 20 or more entries; for a result with fewer entries, or
\* with no urls list at all, the URL field is null.
C12_UrlOnlyForLongChains ==
    \A r \in Req :
        event[r] # NoEvent =>
            LET n == urlsLength(resp[r].body) IN
            /\ resp[r].body \in Results
            /\ event[r].hostname = normalizeURL(req[r].target).hostname
            /\ event[r].hostname \in {"example.com", "b.example"}
            /\ (event[r].url = req[r].target) <=> (n # NoUrls /\ n >= 20)
            /\ (n = NoUrls \/ n < 20) => event[r].url = "null"

\* One event was written with the target (a result of 20 visited URLs) and
\* one with a null URL field for a result without a urls list.
C12_Witness ==
    \E r1, r2 \in Req :
        /\ resp[r1].body = "redirect-loop" /\ event[r1].url = req[r1].target
        /\ event[r1].visited = 20
        /\ resp[r2].body = "bare" /\ event[r2].url = "null" /\ event[r2].visited = 1
        /\ event[r2].hostname = "b.example"

\* C13: an analytics event holds the caller's User-Agent string only when
\* the caller is classified as a bot (and then its is-bot flag is 1); for
\* any other caller the agent field is null and the is-bot flag is 0.
C13_AgentOnlyForBots ==
    \A r \in Req :
        event[r] # NoEvent =>
            IF req[r].ua = "Googlebot/2.1"
            THEN event[r].agent = req[r].ua /\ event[r].is_bot = 1
            ELSE event[r].agent = "null" /\ event[r].is_bot = 0

\* A bot was served from the cache and a browser by the Resolver; the
\* event of the first holds its User-Agent, the event of the second null.
C13_Witness ==
    \E r1, r2 \in Req :
        /\ event[r1].agent = "Googlebot/2.1" /\ event[r1].is_bot = 1 /\ event[r1].cached = 1
        /\ req[r2].ua = "Mozilla/5.0 Firefox" /\ event[r2] # NoEvent
        /\ event[r2].agent = "null" /\ event[r2].is_bot = 0 /\ event[r2].cached = 0

\* Request r was answered with a resolve result, from the cache or from the
\* Resolver.
Served(r) == pc[r] = "done" /\ resp[r].from \in {"cache", "resolver"}

\* C14 (as stated): every request answered with a resolve result, cache hit
\* or miss, wrote exactly one analytics event.
C14_OneEventAlways ==
    \A r \in Req : Served(r) => writes[r] = 1

\* C14 (amended): when env.ANALYTICS is bound, every request answered with
\* a resolve result (cache hit or miss, each caller of a shared Resolver
\* call included) wrote exactly one analytics event, whose cached flag
\* tells a hit from a miss; when it is not bound, none is written.  No
\* request ever writes more than one.
C14_OneEventWhenBound ==
    \A r \in Req :
        /\ writes[r] <= 1
        /\ Served(r) =>
              /\ writes[r] = IF ANALYTICS THEN 1 ELSE 0
              /\ ANALYTICS => /\ event[r] # NoEvent
                              /\ event[r].cached = IF resp[r].from = "cache" THEN 1 ELSE 0
              /\ ~ANALYTICS => event[r] = NoEvent

\* Two callers of one Resolver call were both answered with its result and
\* each wrote one event.
C14_Witness ==
    \E r1, r2 \in Req :
        /\ r1 # r2 /\ promise[r1] = r1 /\ promise[r2] = r1
        /\ Served(r1) /\ Served(r2)
        /\ ANALYTICS /\ writes[r1] = 1 /\ writes[r2] = 1

\* C15: a request for the root path without a url parameter is answered at
\* once: with a redirect to the documentation when its sec-fetch-mode is
\* navigate, else with status 400.  This holds whatever its skip_cache and
\* User-Agent are (the test comes before the bot policy), and the request
\* reads and writes no cache entry, calls neither getLink nor the Resolver
\* and writes no analytics event.
C15_MissingUrl ==
    \A r \in Req :
        (Arrived(r) /\ req[r].method = "GET" /\ req[r].path = "/" /\ req[r].target = "")
            => /\ pc[r] = "done"
               /\ IF req[r].mode = "navigate"
                  THEN /\ resp[r].status = 302
                       /\ resp[r].headers["Location"] =
                              "https://docs.frankerfacez.com/dev/link-preview/robot"
                       /\ resp[r].body = ""
                  ELSE /\ resp[r].status = 400
                       /\ resp[r].body_status = 400
                       /\ resp[r].body = "No URL was provided."
               /\ cached[r] = "undefined" /\ put[r] = "none"
               /\ ~Called(r) /\ ~Invoked(r)
               /\ event[r] = NoEvent /\ writes[r] = 0

\* Two bots asked for the root path with skip_cache and without a url: the
\* navigation was redirected and the other request answered 400.
C15_Witness ==
    \E r1, r2 \in Req :
        /\ req[r1].target = "" /\ req[r1].skip_cache /\ isbot(req[r1].ua)
        /\ req[r1].mode = "navigate" /\ resp[r1].status = 302
        /\ req[r2].target = "" /\ req[r2].skip_cache /\ isbot(req[r2].ua)
        /\ req[r2].mode = "cors" /\ resp[r2].status = 400

\* C16: the router decides in this order.  An OPTIONS request, to any path
\* and with any parameters, is answered 204 with an empty body and the baseline
\* headers.  Otherwise /ips and /examples are answered with their static
\* JSON document.  Otherwise any path other than the root is answered 404,
\* whatever url and skip_cache are.  None of these requests touches the
\* cache, getLink, the Resolver or the analytics sink: only a request for
\* the root path that is not OPTIONS gets that far.
C16_RoutingPrecedence ==
    \A r \in Req :
        Arrived(r) =>
            LET q == req[r]
                resolving == \/ pc[r] \in {"match", "json", "link"}
                             \/ Called(r) \/ cached[r] # "undefined"
                             \/ put[r] # "none" \/ event[r] # NoEvent \/ writes[r] # 0
            IN  /\ q.method = "OPTIONS" =>
                      /\ pc[r] = "done" /\ resp[r].status = 204 /\ resp[r].body = ""
                      /\ \A k \in DOMAIN GLOBAL_HEADERS : resp[r].headers[k] = GLOBAL_HEADERS[k]
                /\ (q.method # "OPTIONS" /\ q.path = "/ips") =>
                      /\ pc[r] = "done" /\ resp[r].status = 200
                      /\ resp[r].body = "ips" /\ resp[r].from = "static"
                /\ (q.method # "OPTIONS" /\ q.path = "/examples") =>
                      /\ pc[r] = "done" /\ resp[r].status = 200
                      /\ resp[r].body = "examples" /\ resp[r].from = "static"
                /\ (q.method # "OPTIONS" /\ q.path \notin {"/", "/ips", "/examples"}) =>
                      /\ pc[r] = "done" /\ resp[r].status = 404
                      /\ resp[r].body_status = 404 /\ resp[r].body = "Not Found"
                /\ resolving => (q.method # "OPTIONS" /\ q.path = "/")

\* An OPTIONS request for /ips with a url and skip_cache was answered 204,
\* and a GET of an unknown path with a valid url was answered 404.
C16_Witness ==
    \E r1, r2 \in Req :
        /\ req[r1].method = "OPTIONS" /\ req[r1].path = "/ips"
        /\ req[r1].target = "http://example.com/" /\ req[r1].skip_cache
        /\ resp[r1].status = 204
        /\ req[r2].method = "GET" /\ req[r2].path = "/favicon.ico"
        /\ req[r2].target = "http://example.com/" /\ resp[r2].status = 404

----------------------------------------------------------------------------
(* The response utilities, applied to bounded arguments.  ret holds the    *)
(* opts the caller passed and the Response that came back.                 *)

\* Headers a caller can pass: none, the Cache-Control of handle(), or its
\* own values for two of the baseline headers.
CallerHeaders ==
    {[k \in HeaderNames |->
        CASE k = "Access-Control-Allow-Origin"  -> o
          [] k = "Access-Control-Allow-Methods" -> m
          [] k = "Cache-Control"                -> c
          [] OTHER                              -> ""] :
        o \in {"", "https://www.twitch.tv"}, m \in {"", "GET"},
        c \in {"", "public, max-age=1800"}}

CallerOpts == [status : {0, 201}, headers : CallerHeaders]

\* responseJSON(obj, opts)
CallResponseJSON ==
    /\ \E obj \in {resultBody(x) : x \in Results} \cup {staticBody("ips"), staticBody("examples")},
          opts \in CallerOpts :
          ret' = [op |-> "responseJSON", opts |-> opts, response |-> responseJSON(obj, opts)]
    /\ UNCHANGED <<worker, rows, now>>

\* responseRedirect(url, code, opts)
CallResponseRedirect ==
    /\ \E code \in {301, 302}, opts \in CallerOpts :
          ret' = [op |-> "responseRedirect", opts |-> opts,
                  response |-> responseRedirect(RobotDocs, code, opts)]
    /\ UNCHANGED <<worker, rows, now>>

\* responseError(status, msg)
CallResponseError ==
    /\ \E status \in {400, 403, 404, 500},
          msg \in {InternalError, BotsForbidden, NotFound, NoUrl, "Invalid URL"} :
          ret' = [op |-> "responseError", opts |-> [status |-> status, headers |-> NoHeaders],
                  response |-> responseError(status, msg)]
    /\ UNCHANGED <<worker, rows, now>>

\* The preflight Response of fetch().
CallPreflight ==
    /\ ret' = [op |-> "preflight", opts |-> [status |-> 204, headers |-> NoHeaders],
               response |-> preflightResponse]
    /\ UNCHANGED <<worker, rows, now>>

\* The responses of handle(): the one it builds for a result and the one
\* cache.match gives back.
CallHandle ==
    /\ \E result \in Results, hit \in BOOLEAN :
          ret' = [op |-> IF hit THEN "cached" ELSE "result",
                  opts |-> [status |-> 0,
                            headers |-> [NoHeaders EXCEPT
                                            !["Cache-Control"] = "public, max-age=1800"]],
                  response |-> IF hit THEN cachedResponse(result) ELSE resultResponse(result)]
    /\ UNCHANGED <<worker, rows, now>>

NextUtil ==
    \/ CallResponseJSON
    \/ CallResponseRedirect
    \/ CallResponseError
    \/ CallPreflight
    \/ CallHandle

SpecUtil == Init /\ [][NextUtil]_vars

\* C17: every Response the worker builds (preflight, static document,
\* redirect, error, resolved result, cache hit) carries all headers of the
\* baseline set.  Where the caller passed headers of its own they are all
\* still there, a baseline header the caller set itself keeps the caller's
\* value, and every other baseline header has the baseline value.
C17_BaselineHeaders ==
    ret.op # "none" =>
        /\ \A k \in DOMAIN GLOBAL_HEADERS :
              /\ ret.response.headers[k] # ""
              /\ ret.response.headers[k] =
                    IF ret.opts.headers[k] # "" THEN ret.opts.headers[k] ELSE GLOBAL_HEADERS[k]
        /\ ret.opts.headers["Cache-Control"] # "" =>
              ret.response.headers["Cache-Control"] = ret.opts.headers["Cache-Control"]

\* A JSON response was built for a caller that passed Cache-Control and its
\* own allow-origin: both are kept and the allow-methods header comes from
\* the baseline set.
C17_Witness ==
    /\ ret.op = "responseJSON"
    /\ ret.opts.headers["Access-Control-Allow-Origin"] = "https://www.twitch.tv"
    /\ ret.opts.headers["Access-Control-Allow-Methods"] = ""
    /\ ret.response.headers["Access-Control-Allow-Origin"] = "https://www.twitch.tv"
    /\ ret.response.headers["Access-Control-Allow-Methods"] = "GET, OPTIONS"
    /\ ret.response.headers["Cache-Control"] = "public, max-age=1800"

\* C18: every 500 response has the one generic body, whatever failed (the
\* normalizer throwing an unexpected error, the cache lookup or the
\* Resolver call): its error member is the fixed message, its status member
\* is 500 like the HTTP status, and nothing of the thrown error is in it;
\* so any two 500 responses have identical bodies.
C18_Generic500 ==
    /\ \A r \in Req :
          resp[r].status = 500 =>
              /\ resp[r].body = "An internal server error occurred."
              /\ resp[r].body_status = 500
              /\ resp[r].from = "error"
              /\ resp[r].body # normalizeURL(req[r].target).href
    /\ \A r1, r2 \in Req :
          (resp[r1].status = 500 /\ resp[r2].status = 500)
              => /\ resp[r1].body = resp[r2].body
                 /\ resp[r1].body_status = resp[r2].body_status

\* One request failed in the normalizer and another in the Resolver; both
\* were answered 500 with the same body.
C18_Witness ==
    \E r1, r2 \in Req :
        /\ normalizeURL(req[r1].target).kind = "Error" /\ resp[r1].status = 500
        /\ settled[r2] = "rejected" /\ promise[r2] = r2 /\ resp[r2].status = 500
        /\ resp[r1].body = resp[r2].body

\* C19: a request joins a Resolver call only while that call is unsettled.
\* When a request calls getLink and no call for its normalized URL is
\* unsettled (none was ever made, or the earlier ones have settled and
\* been cleaned up), it starts a Resolver call of its own; otherwise it
\* joins the unsettled one.
C19_NoJoinAfterCleanup ==
    [][\A r \in Req :
          (promise[r] = None /\ promise'[r] # None) =>
              LET l == normalizeURL(req'[r].target).href
                  unsettled == {p \in Req : settled[p] = "pending" /\ LinkOf(p) = l}
              IN  IF unsettled = {}
                  THEN /\ promise'[r] = r
                       /\ settled[r] = "none" /\ settled'[r] = "pending"
                       /\ WAIT_MAP'[l] = r
                  ELSE /\ promise'[r] \in unsettled
                       /\ settled'[r] = "none"]_vars

\* The first request was answered with the result of its Resolver call and
\* its cache.put has not landed yet; a second request for the same cache
\* key looked in the cache, found nothing and started a second Resolver
\* call for the URL, the only unsettled one.
C19_Witness ==
    \E r1, r2 \in Req :
        /\ r1 # r2 /\ cacheKey(req[r1]) = cacheKey(req[r2])
        /\ promise[r1] = r1 /\ settled[r1] \in Results
        /\ resp[r1].status = 200 /\ put[r1] = "pending"
        /\ cache[cacheKey(req[r1])] = "absent"
        /\ ~req[r2].skip_cache
        /\ promise[r2] = r2 /\ settled[r2] = "pending"
        /\ WAIT_MAP[LinkOf(r2)] = r2

----------------------------------------------------------------------------
(* The cache adapter of buildConfig(): get and set over the cache_entry    *)
(* table of env.CACHE_DB.  A row is [value, ttl, created]; its key is the  *)
(* argument of rows.                                                       *)

\* Keys of the adapter.
Keys == {"credentials", "instance"}

\* Values a caller stores.
Values == {"token-1", "token-2"}

\* JSON.stringify(value)
JSON_stringify(value) == IF value = "token-1" THEN "\"token-1\"" ELSE "\"token-2\""

\* JSON.parse(text): the value, or a SyntaxError.
JSON_parse(text) ==
    CASE text = "\"token-1\"" -> [ok |-> TRUE, value |-> "token-1"]
      [] text = "\"token-2\"" -> [ok |-> TRUE, value |-> "token-2"]
      [] OTHER                -> [ok |-> FALSE, value |-> "SyntaxError"]

\* No ttl: options?.ttl undefined, or a NULL ttl column.
NoTtl == -1

\* ttl of CacheOptions, in seconds.
TtlOptions == {NoTtl, 1}

\* Values of Date.now(), in milliseconds.
Times == {0, 500, 1000, 3600000}

\* What the table can hold when the isolate starts: nothing, or one row
\* under the first key that some writer left there: a good one, one whose
\* value does not parse, one with an empty value.
InitialTables ==
    {NoRows} \cup
    {[k \in {"credentials"} |-> [value |-> v, ttl |-> t, created |-> 0]] :
        v \in {"\"token-1\"", "{\"tok", ""}, t \in {NoTtl, 1}}

\* CACHE_DB.prepare('SELECT ...').bind(key).first(), with its catch: the
\* row, or null.
NoRow == [value |-> "", ttl |-> NoTtl, created |-> 0, key |-> "null"]

first(table, key, failed) ==
    IF failed \/ key \notin DOMAIN table
    THEN NoRow
    ELSE [value |-> table[key].value, ttl |-> table[key].ttl,
          created |-> table[key].created, key |-> key]

\* const ttl = options?.ttl ?? result.ttl ?? 3600
readTtl_StoredFirst(option, result) ==
    IF result.ttl # NoTtl THEN result.ttl
    ELSE IF option # NoTtl THEN option ELSE 3600

readTtl(option, result) ==
    IF option # NoTtl THEN option
    ELSE IF result.ttl # NoTtl THEN result.ttl ELSE 3600

\* What get(key, options) returns at time t.
cacheGet(table, key, option, failed, t) ==
    LET result  == first(table, key, failed)
        expires == result.created + (readTtl(option, result) * 1000)
    IN  IF result.key = key /\ result.value # "" /\ expires > t /\ JSON_parse(result.value).ok
        THEN [hit |-> TRUE, value |-> JSON_parse(result.value).value]
        ELSE [hit |-> FALSE, value |-> "null"]

\* The table after set(key, value, options) at time t.
cacheSet(table, key, value, option, failed, t) ==
    IF failed
    THEN table
    ELSE [k \in DOMAIN table \cup {key} |->
             IF k = key
             THEN [value |-> JSON_stringify(value),
                   ttl |-> IF option # NoTtl THEN option ELSE 3600,
                   created |-> t]
             ELSE table[k]]

InitD1 ==
    /\ InitWorker
    /\ rows \in InitialTables
    /\ now = 0
    /\ ret = NoCall

\* await cache.get(key, options); the query may fail.
Get ==
    /\ \E key \in Keys, option \in TtlOptions, failed \in BOOLEAN :
          ret' = [op |-> "get", key |-> key, ttl |-> option, failed |-> failed,
                  result |-> cacheGet(rows, key, option, failed, now)]
    /\ UNCHANGED <<worker, rows, now>>

\* await cache.set(key, value, options); the statement may fail.
Set ==
    /\ \E key \in Keys, value \in Values, option \in TtlOptions, failed \in BOOLEAN :
          /\ rows' = cacheSet(rows, key, value, option, failed, now)
          /\ ret' = [op |-> "set", key |-> key, ttl |-> option, failed |-> failed,
                     result |-> [hit |-> FALSE, value |-> value]]
    /\ UNCHANGED <<worker, now>>

\* Time passes.
Tick ==
    /\ \E t \in Times : t > now /\ now' = t
    /\ UNCHANGED <<worker, rows, ret>>

NextD1 ==
    \/ Get
    \/ Set
    \/ Tick

SpecD1 == InitD1 /\ [][NextD1]_vars

\* The text is JSON.
Parseable(text) == text \in {"\"token-1\"", "\"token-2\""}

\* C20: get(key, options) reports a hit exactly when the query succeeded,
\* the table holds a row for key, its value parses and created + ttl * 1000
\* is later than the time of the read, where ttl is the read option if one
\* was given, else the ttl stored in the row, else 3600.  In every other
\* case (no row, expired row, value that does not parse, failed query) it
\* returns a miss with a null value.  No get changes the table.
C20_LazyExpiry ==
    [][(ret' # ret /\ ret'.op = "get") =>
          LET key == ret'.key
              ttl == IF ret'.ttl # NoTtl THEN ret'.ttl
                     ELSE IF rows[key].ttl # NoTtl THEN rows[key].ttl ELSE 3600
              fresh == /\ ~ret'.failed
                       /\ key \in DOMAIN rows
                       /\ Parseable(rows[key].value)
                       /\ rows[key].created + ttl * 1000 > now
          IN  /\ rows' = rows
              /\ ret'.result.hit <=> fresh
              /\ ~fresh => ret'.result.value = "null"]_vars

\* A read found an expired row (written with the default ttl and read with
\* a ttl of one second, a second later) and the row is still in the table.
C20_Witness ==
    /\ ret.op = "get" /\ ~ret.failed /\ ~ret.result.hit /\ ret.ttl = 1
    /\ ret.key \in DOMAIN rows
    /\ rows[ret.key].ttl = 3600 /\ rows[ret.key].value = "\"token-2\""
    /\ rows[ret.key].created = 0 /\ now = 1000

----------------------------------------------------------------------------
\* Request r takes a step.
Steps(r) == pc'[r] # pc[r]

\* C21: a request that ends without a newly resolved result leaves the
\* shared state alone.  The steps of a cache hit (the lookup finding the
\* entry, the answer) change neither the cache nor WAIT_MAP nor any
\* scheduled write, and the request never called getLink.  The step that
\* answers with a preflight, a static document, a redirect or a 400, 403,
\* 404 or 500 changes no cache entry, schedules no write and writes no
\* analytics event.
C21_NoResultNoEffect ==
    [][\A r \in Req :
          Steps(r) =>
              /\ (pc'[r] = "json" \/ (pc'[r] = "done" /\ resp'[r].from = "cache")) =>
                    /\ cache' = cache /\ WAIT_MAP' = WAIT_MAP /\ put' = put
                    /\ promise'[r] = None /\ settled' = settled
              /\ (pc'[r] = "done" /\ resp'[r].from \in {"preflight", "static", "redirect", "error"}) =>
                    /\ resp'[r].status \in {200, 204, 302, 400, 403, 404, 500}
                    /\ cache' = cache /\ put' = put /\ put'[r] = "none"
                    /\ event'[r] = NoEvent /\ writes'[r] = 0]_vars

\* A request was served from the cache, wrote its event and scheduled no
\* write; the entry it read is still the one the first request stored and
\* WAIT_MAP is empty.
C21_Witness ==
    \E r1, r2 \in Req :
        /\ put[r1] = "stored" /\ cache[cacheKey(req[r1])] = resp[r1].body
        /\ cacheKey(req[r2]) = cacheKey(req[r1])
        /\ resp[r2].from = "cache" /\ resp[r2].body = resp[r1].body
        /\ put[r2] = "none" /\ promise[r2] = None /\ writes[r2] = 1
        /\ \A l \in Strings : WAIT_MAP[l] = None

\* C22: the in-flight key is the normalized URL, the cache key the pair of
\* origin and normalized URL.  Requests waiting for one normalized URL wait
\* for one Resolver call, which only one of them started, even when they
\* came through different origins;
\* every cache entry sits under the origin and normalized URL of a request
\* whose write stored that body; and a request served from the cache got a
\* body that a request through its own origin, for its normalized URL,
\* had stored.
C22_OriginInCacheKeyOnly ==
    /\ \A r1, r2 \in Req :
          (/\ pc[r1] = "link" /\ pc[r2] = "link"
           /\ LinkOf(r1) = LinkOf(r2) /\ req[r1].origin # req[r2].origin)
              => /\ promise[r1] = promise[r2]
                 /\ ~(Invoked(r1) /\ Invoked(r2))
    /\ \A o \in Origins, l \in Strings :
          cache[<<o, l>>] # "absent" =>
              \E r \in Req : /\ put[r] = "stored" /\ req[r].origin = o /\ LinkOf(r) = l
                             /\ resp[r].body = cache[<<o, l>>]
    /\ \A r \in Req :
          cached[r] # "undefined" =>
              \E w \in Req : /\ w # r /\ put[w] = "stored"
                             /\ req[w].origin = req[r].origin /\ LinkOf(w) = LinkOf(r)
                             /\ resp[w].body = cached[r]

\* Two requests for one URL came through different origins, the second
\* joined the Resolver call of the first, and both writes landed: the
\* result sits under two cache keys.
C22_Witness ==
    \E r1, r2 \in Req :
        /\ req[r1].origin # req[r2].origin /\ LinkOf(r1) = LinkOf(r2)
        /\ promise[r1] = r1 /\ promise[r2] = r1 /\ settled[r2] = "none"
        /\ put[r1] = "stored" /\ put[r2] = "stored"
        /\ cache[<<req[r1].origin, LinkOf(r1)>>] = resp[r1].body
        /\ cache[<<req[r2].origin, LinkOf(r2)>>] = resp[r1].body

====
